---- MODULE Spec2Model ----
(***************************************************************************)
(* Model of src/main.py: the Study Material Generator API.                 *)
(*                                                                         *)
(* A text is a sequence of tokens.  A token of a request text or of a      *)
(* generation output is one letter; a token of a prompt template is the    *)
(* fixed chunk of the template between two substitutions; a decimal        *)
(* literal is one token per character.  The generation capability          *)
(* (Crew.kickoff) is the environment: a call is in flight between Kickoff  *)
(* and one of KickoffReturns / KickoffRaises, and what it returns is       *)
(* chosen nondeterministically.                                            *)
(***************************************************************************)
EXTENDS Integers, Sequences, FiniteSets, TLC

VARIABLES
    boot,            \* position of the module initialisation (lines 9-24)
    environ,         \* the process environment's GEMINI_API_KEY, or None
    GEMINI_API_KEY,  \* the module global of line 12
    gemini_llm,      \* the module global of line 18, shared by all requests
    inbox,           \* client -> the HTTP request that client sends
    pc,              \* client -> position of its request
    stage,           \* client -> index of the current stage of the handler
    locals,          \* scope -> the local variables of a handler invocation
    calls,           \* client -> the generation calls started, in order
    outputs,         \* client -> the raw texts the generation calls returned
    events,          \* client -> call / return / raise / respond, in order
    response         \* client -> the HTTP response sent

vars == <<boot, environ, GEMINI_API_KEY, gemini_llm, inbox, pc, stage,
          locals, calls, outputs, events, response>>

----------------------------------------------------------------------------
(* Bounds                                                                  *)

MaxLen == 2        \* longest request text, in tokens
MaxCount == 10     \* num_mcqs ranges over -MaxCount..MaxCount
NumClients == 2    \* concurrent clients of SpecConc

----------------------------------------------------------------------------
(* Texts                                                                   *)

None == "None"
Unset == <<"<unset>">>
Marker == <<"m">>
Alphabet == {"a", "b"}
Letters == <<"a", "b", "c", "d">>

Texts == UNION {[1..k -> Alphabet] : k \in 0..MaxLen}

Range(s) == {s[i] : i \in 1..Len(s)}

Contains(s, t) ==
    \E i \in 0..(Len(s) - Len(t)) : SubSeq(s, i + 1, i + Len(t)) = t

DigitChar(d) == <<"0", "1", "2", "3", "4", "5", "6", "7", "8", "9">>[d + 1]

RECURSIVE NatToStr(_)
NatToStr(n) ==
    IF n < 10 THEN <<DigitChar(n)>>
    ELSE NatToStr(n \div 10) \o <<DigitChar(n % 10)>>

IntToStr_abs(n) == IF n < 0 THEN NatToStr(-n) ELSE NatToStr(n)

\* f"{num_mcqs}": the decimal literal of a Python int
IntToStr(n) == IF n < 0 THEN <<"-">> \o NatToStr(-n) ELSE NatToStr(n)

----------------------------------------------------------------------------
(* HTTP requests                                                           *)

Absent == [type |-> "absent"]
JStr(t) == [type |-> "str", val |-> t]
JInt(n) == [type |-> "int", val |-> n]

NoBody == [kind |-> "none"]
Malformed == [kind |-> "malformed"]
Object(t, n) == [kind |-> "object", text |-> t, num_mcqs |-> n]

Get(path) == [method |-> "GET", path |-> path, body |-> NoBody]
Post(path, body) == [method |-> "POST", path |-> path, body |-> body]

PostPaths == {"/summarize", "/generate_study_material"}

TextFields == {Absent} \cup {JStr(t) : t \in Texts}
CountFields == {Absent} \cup {JInt(n) : n \in (-MaxCount)..MaxCount}

Bodies == {Malformed} \cup {Object(t, n) : t \in TextFields, n \in CountFields}

Requests ==
    {Get("/"), Get("/health")} \cup {Post(p, b) : p \in PostPaths, b \in Bodies}

ClientText(i) == <<Letters[((i - 1) % Len(Letters)) + 1]>>

ConcRequests(i) ==
    {Get("/"), Get("/health"),
     Post("/summarize", Object(JStr(ClientText(i)), Absent)),
     Post("/generate_study_material", Object(JStr(ClientText(i)), Absent)),
     Post("/generate_study_material", Object(Absent, Absent))}

Clients == DOMAIN inbox

----------------------------------------------------------------------------
(* Request models (pydantic)                                               *)

DefaultNumMcqs == 5

Validates_textOptional(body) == body.kind = "object"

\* SummarizeRequest / StudyMaterialRequest: text is required, num_mcqs is
\* optional; a body that is not a JSON object is rejected
Validates(body) ==
    /\ body.kind = "object"
    /\ body.text.type = "str"
    /\ body.num_mcqs.type \in {"absent", "int"}

FieldText(body) == IF body.text.type = "str" THEN body.text.val ELSE Unset

FieldCount(body) ==
    IF body.num_mcqs.type = "int" THEN body.num_mcqs.val ELSE DefaultNumMcqs

----------------------------------------------------------------------------
(* Handler invocations                                                     *)

Scope_global(c) == 1

\* the local variables of a handler belong to the invocation
Scope(c) == c

NoFrame ==
    [user_text |-> Unset, content |-> Unset, num_mcqs |-> 0,
     topics_text |-> Unset, notes_text |-> Unset, mcq_text |-> Unset,
     result |-> Unset]

SummarizeFrame(body) == [NoFrame EXCEPT !.user_text = FieldText(body)]

StudyFrame(body) ==
    [NoFrame EXCEPT !.content = FieldText(body), !.num_mcqs = FieldCount(body)]

SummarizePipeline == <<"summarize">>

StudyPipeline_swapped == <<"topic", "mcq", "notes">>

StudyPipeline == <<"topic", "notes", "mcq">>

Pipeline(path) ==
    IF path = "/summarize" THEN SummarizePipeline ELSE StudyPipeline

SummarizeDescription(L) == <<"summarize:head">> \o L.user_text

TopicDescription(L) ==
    <<"topic:head">> \o L.content \o <<"topic:format">>

NotesDescription(L) ==
    <<"notes:head">> \o L.topics_text \o <<"notes:original">> \o L.content
        \o <<"notes:rules">>

McqDescription_withTopics(L) ==
    <<"mcq:head">> \o L.topics_text \o L.notes_text \o <<"mcq:create">>
        \o IntToStr(L.num_mcqs) \o <<"mcq:rules">>

McqDescription(L) ==
    <<"mcq:head">> \o L.notes_text \o <<"mcq:create">>
        \o IntToStr(L.num_mcqs) \o <<"mcq:rules">>

McqExpectedOutput(L) ==
    <<"mcq:expect_head">> \o IntToStr(L.num_mcqs) \o <<"mcq:expect_tail">>

Description(s, L) ==
    CASE s = "summarize" -> SummarizeDescription(L)
      [] s = "topic" -> TopicDescription(L)
      [] s = "notes" -> NotesDescription(L)
      [] s = "mcq" -> McqDescription(L)

ExpectedOutput(s, L) ==
    CASE s = "summarize" -> <<"summarize:expect">>
      [] s = "topic" -> <<"topic:expect">>
      [] s = "notes" -> <<"notes:expect">>
      [] s = "mcq" -> McqExpectedOutput(L)

Role(s) ==
    CASE s = "summarize" -> "Subject Teacher"
      [] s = "topic" -> "Topic Analyzer"
      [] s = "notes" -> "Notes Maker"
      [] s = "mcq" -> "MCQ Creator"

\* the Task handed to the Crew of stage s, built from the locals L
TaskOf(s, L) ==
    [stage |-> s, role |-> Role(s), llm |-> gemini_llm,
     description |-> Description(s, L),
     expected_output |-> ExpectedOutput(s, L)]

Str_repr(result) == IF result.raw = <<>> THEN <<"None">> ELSE result.raw

\* str(result) of a CrewOutput is its raw text
Str(result) == result.raw

\* the assignment that follows the kickoff of stage s
Assign(s, L, text) ==
    CASE s = "summarize" -> [L EXCEPT !.result = text]
      [] s = "topic" -> [L EXCEPT !.topics_text = text]
      [] s = "notes" -> [L EXCEPT !.notes_text = text]
      [] s = "mcq" -> [L EXCEPT !.mcq_text = text]

SummarizeResponse_echo(L) == [summary |-> L.user_text]

SummarizeResponse(L) == [summary |-> L.result]

StudyResponse_echo(L) ==
    [topics |-> L.content, notes |-> L.notes_text, mcqs |-> L.mcq_text]

StudyResponse(L) ==
    [topics |-> L.topics_text, notes |-> L.notes_text, mcqs |-> L.mcq_text]

ResponseBody(path, L) ==
    IF path = "/summarize" THEN SummarizeResponse(L) ELSE StudyResponse(L)

EmptyBody == [x \in {} |-> <<>>]
NoResponse == [status |-> 0, body |-> EmptyBody]

\* what the generation capability may return to client c
GenOutputs(c) ==
    {<<>>, Marker}
        \cup (IF inbox[c].body.kind = "object" /\ inbox[c].body.text.type = "str"
              THEN {inbox[c].body.text.val} ELSE {})

----------------------------------------------------------------------------
(* Module initialisation                                                   *)

Keys == {"k"}
NoLLM == [model |-> "", api_key |-> None, temperature |-> ""]

KeyMissing_never(key) == FALSE

KeyMissing(key) == key = None

\* load_dotenv(): a value of the .env file is used only when the
\* environment does not already have one
LoadDotenv ==
    /\ boot = "load_dotenv"
    /\ \E file \in Keys \cup {None} :
          environ' = IF environ # None THEN environ ELSE file
    /\ boot' = "getenv"
    /\ UNCHANGED <<GEMINI_API_KEY, gemini_llm, inbox, pc, stage, locals,
                   calls, outputs, events, response>>

GetEnv ==
    /\ boot = "getenv"
    /\ GEMINI_API_KEY' = environ
    /\ boot' = "check"
    /\ UNCHANGED <<environ, gemini_llm, inbox, pc, stage, locals, calls,
                   outputs, events, response>>

StartupFails ==
    /\ boot = "check"
    /\ KeyMissing(GEMINI_API_KEY)
    /\ boot' = "failed"
    /\ UNCHANGED <<environ, GEMINI_API_KEY, gemini_llm, inbox, pc, stage,
                   locals, calls, outputs, events, response>>

StartupServes ==
    /\ boot = "check"
    /\ ~KeyMissing(GEMINI_API_KEY)
    /\ gemini_llm' = [model |-> "gemini/gemini-2.5-pro",
                      api_key |-> GEMINI_API_KEY, temperature |-> "0.3"]
    /\ boot' = "serving"
    /\ UNCHANGED <<environ, GEMINI_API_KEY, inbox, pc, stage, locals, calls,
                   outputs, events, response>>

----------------------------------------------------------------------------
(* Requests                                                                *)

Respond(c, status, body) ==
    /\ response' = [response EXCEPT ![c] = [status |-> status, body |-> body]]
    /\ events' = [events EXCEPT ![c] = Append(@, <<"respond", status>>)]

ReadRoot(c) ==
    /\ boot = "serving"
    /\ pc[c] = "pending"
    /\ inbox[c].method = "GET" /\ inbox[c].path = "/"
    /\ Respond(c, 200, [message |-> <<"running">>])
    /\ pc' = [pc EXCEPT ![c] = "done"]
    /\ UNCHANGED <<boot, environ, GEMINI_API_KEY, gemini_llm, inbox, stage,
                   locals, calls, outputs>>

HealthCheck(c) ==
    /\ boot = "serving"
    /\ pc[c] = "pending"
    /\ inbox[c].method = "GET" /\ inbox[c].path = "/health"
    /\ Respond(c, 200, [status |-> <<"ok">>])
    /\ pc' = [pc EXCEPT ![c] = "done"]
    /\ UNCHANGED <<boot, environ, GEMINI_API_KEY, gemini_llm, inbox, stage,
                   locals, calls, outputs>>

\* request validation fails: the handler is not called
RejectInvalid(c) ==
    /\ boot = "serving"
    /\ pc[c] = "pending"
    /\ inbox[c].method = "POST"
    /\ ~Validates(inbox[c].body)
    /\ Respond(c, 422, [detail |-> <<"validation error">>])
    /\ pc' = [pc EXCEPT ![c] = "rejected"]
    /\ UNCHANGED <<boot, environ, GEMINI_API_KEY, gemini_llm, inbox, stage,
                   locals, calls, outputs>>

\* summarize_text is entered: user_text = request.text
SummarizeText(c) ==
    /\ boot = "serving"
    /\ pc[c] = "pending"
    /\ inbox[c].method = "POST" /\ inbox[c].path = "/summarize"
    /\ Validates(inbox[c].body)
    /\ locals' = [locals EXCEPT ![Scope(c)] = SummarizeFrame(inbox[c].body)]
    /\ stage' = [stage EXCEPT ![c] = 1]
    /\ pc' = [pc EXCEPT ![c] = "ready"]
    /\ UNCHANGED <<boot, environ, GEMINI_API_KEY, gemini_llm, inbox, calls,
                   outputs, events, response>>

\* generate_study_material is entered: content, num_mcqs = request.*
GenerateStudyMaterial(c) ==
    /\ boot = "serving"
    /\ pc[c] = "pending"
    /\ inbox[c].method = "POST" /\ inbox[c].path = "/generate_study_material"
    /\ Validates(inbox[c].body)
    /\ locals' = [locals EXCEPT ![Scope(c)] = StudyFrame(inbox[c].body)]
    /\ stage' = [stage EXCEPT ![c] = 1]
    /\ pc' = [pc EXCEPT ![c] = "ready"]
    /\ UNCHANGED <<boot, environ, GEMINI_API_KEY, gemini_llm, inbox, calls,
                   outputs, events, response>>

StageName(c) == Pipeline(inbox[c].path)[stage[c]]

\* the Task and the Crew of the current stage are built and crew.kickoff()
\* is called: the handler blocks
Kickoff(c) ==
    /\ pc[c] = "ready"
    /\ calls' = [calls EXCEPT
                   ![c] = Append(@, TaskOf(StageName(c), locals[Scope(c)]))]
    /\ events' = [events EXCEPT ![c] = Append(@, <<"call", StageName(c)>>)]
    /\ pc' = [pc EXCEPT ![c] = "waiting"]
    /\ UNCHANGED <<boot, environ, GEMINI_API_KEY, gemini_llm, inbox, stage,
                   locals, outputs, response>>

\* crew.kickoff() returns: the text is assigned, and the handler goes on to
\* the next stage or returns the response
KickoffReturns(c) ==
    /\ pc[c] = "waiting"
    /\ \E raw \in GenOutputs(c) :
         LET result == [raw |-> raw]
             L == Assign(StageName(c), locals[Scope(c)], Str(result))
             last == stage[c] = Len(Pipeline(inbox[c].path))
         IN /\ outputs' = [outputs EXCEPT ![c] = Append(@, raw)]
            /\ locals' = [locals EXCEPT ![Scope(c)] = L]
            /\ IF last
               THEN /\ response' = [response EXCEPT ![c] =
                          [status |-> 200,
                           body |-> ResponseBody(inbox[c].path, L)]]
                    /\ events' = [events EXCEPT ![c] =
                          @ \o <<<<"return", StageName(c)>>,
                                 <<"respond", 200>>>>]
                    /\ pc' = [pc EXCEPT ![c] = "done"]
                    /\ stage' = stage
               ELSE /\ response' = response
                    /\ events' = [events EXCEPT ![c] =
                          Append(@, <<"return", StageName(c)>>)]
                    /\ pc' = [pc EXCEPT ![c] = "ready"]
                    /\ stage' = [stage EXCEPT ![c] = @ + 1]
    /\ UNCHANGED <<boot, environ, GEMINI_API_KEY, gemini_llm, inbox, calls>>

KickoffRaises_retry(c) ==
    /\ pc[c] = "waiting"
    /\ events' = [events EXCEPT ![c] = Append(@, <<"raise", StageName(c)>>)]
    /\ pc' = [pc EXCEPT ![c] = "ready"]
    /\ UNCHANGED <<boot, environ, GEMINI_API_KEY, gemini_llm, inbox, stage,
                   locals, calls, outputs, response>>

\* crew.kickoff() raises: nothing in the handler catches it, the handler is
\* left and the framework answers with a server error
KickoffRaises(c) ==
    /\ pc[c] = "waiting"
    /\ response' = [response EXCEPT ![c] =
          [status |-> 500, body |-> [detail |-> <<"Internal Server Error">>]]]
    /\ events' = [events EXCEPT ![c] =
          @ \o <<<<"raise", StageName(c)>>, <<"respond", 500>>>>]
    /\ pc' = [pc EXCEPT ![c] = "raised"]
    /\ UNCHANGED <<boot, environ, GEMINI_API_KEY, gemini_llm, inbox, stage,
                   locals, calls, outputs>>

----------------------------------------------------------------------------
(* Specifications                                                          *)

InitState(requests) ==
    /\ boot = "load_dotenv"
    /\ environ \in Keys \cup {None}
    /\ GEMINI_API_KEY = None
    /\ gemini_llm = NoLLM
    /\ inbox = requests
    /\ pc = [c \in DOMAIN requests |-> "pending"]
    /\ stage = [c \in DOMAIN requests |-> 0]
    /\ locals = [c \in DOMAIN requests |-> NoFrame]
    /\ calls = [c \in DOMAIN requests |-> <<>>]
    /\ outputs = [c \in DOMAIN requests |-> <<>>]
    /\ events = [c \in DOMAIN requests |-> <<>>]
    /\ response = [c \in DOMAIN requests |-> NoResponse]

\* one client, any request
Init == \E r \in Requests : InitState([c \in {1} |-> r])

\* NumClients clients whose request texts differ, running concurrently
InitConc ==
    \E rs \in [1..NumClients -> UNION {ConcRequests(i) : i \in 1..NumClients}] :
        /\ \A i \in 1..NumClients : rs[i] \in ConcRequests(i)
        /\ InitState(rs)

Next ==
    \/ LoadDotenv
    \/ GetEnv
    \/ StartupFails
    \/ StartupServes
    \/ \E c \in Clients : ReadRoot(c)
    \/ \E c \in Clients : HealthCheck(c)
    \/ \E c \in Clients : RejectInvalid(c)
    \/ \E c \in Clients : SummarizeText(c)
    \/ \E c \in Clients : GenerateStudyMaterial(c)
    \/ \E c \in Clients : Kickoff(c)
    \/ \E c \in Clients : KickoffReturns(c)
    \/ \E c \in Clients : KickoffRaises(c)

Spec == Init /\ [][Next]_vars

SpecConc == InitConc /\ [][Next]_vars

----------------------------------------------------------------------------
(* Properties                                                              *)

IsStudy(c) ==
    inbox[c].method = "POST" /\ inbox[c].path = "/generate_study_material"

IsSummarize(c) == inbox[c].method = "POST" /\ inbox[c].path = "/summarize"

HasText(c) ==
    /\ inbox[c].body.kind = "object"
    /\ inbox[c].body.text.type = "str"

RequestText(c) == inbox[c].body.text.val

DefaultCount(c) ==
    inbox[c].body.kind = "object" /\ inbox[c].body.num_mcqs.type = "absent"

RequestedCount(c) ==
    IF DefaultCount(c) THEN 5 ELSE inbox[c].body.num_mcqs.val

StageCalls(c, s) == {i \in 1..Len(calls[c]) : calls[c][i].stage = s}

\* the decimal literal of an integer of at most two digits, by table
Literal(n) ==
    LET a == IF n < 0 THEN -n ELSE n
        digit == [d \in 0..9 |->
                    CASE d = 0 -> "0" [] d = 1 -> "1" [] d = 2 -> "2"
                      [] d = 3 -> "3" [] d = 4 -> "4" [] d = 5 -> "5"
                      [] d = 6 -> "6" [] d = 7 -> "7" [] d = 8 -> "8"
                      [] d = 9 -> "9"]
    IN (IF n < 0 THEN <<"-">> ELSE <<>>)
         \o (IF a >= 10 THEN <<digit[a \div 10]>> ELSE <<>>)
         \o <<digit[a % 10]>>

NumericTokens == {"-", "0", "1", "2", "3", "4", "5", "6", "7", "8", "9"}

IsNumeric(tok) == tok \in NumericTokens

IsPrefix(s, t) == Len(s) <= Len(t) /\ SubSeq(t, 1, Len(s)) = s

\* C1: the topic instruction embeds the request text; the notes instruction
\* embeds the topic stage's output and the request text; the MCQ
\* instruction embeds the notes stage's output and the requested count, and
\* two requests whose notes output and count agree have the same MCQ
\* instruction whatever their request texts and topic outputs are.
C1_InstructionsFromStatedInputs ==
    /\ \A c \in Clients : \A i \in 1..Len(calls[c]) :
         LET k == calls[c][i] IN
           /\ k.stage = "topic" => Contains(k.description, RequestText(c))
           /\ k.stage = "notes" =>
                /\ Contains(k.description, outputs[c][i - 1])
                /\ Contains(k.description, RequestText(c))
           /\ k.stage = "mcq" =>
                /\ Contains(k.description, outputs[c][i - 1])
                /\ Contains(k.description, Literal(RequestedCount(c)))
    /\ \A c, d \in Clients :
         \A i \in StageCalls(c, "mcq") : \A j \in StageCalls(d, "mcq") :
           (outputs[c][i - 1] = outputs[d][j - 1]
               /\ RequestedCount(c) = RequestedCount(d))
             => calls[c][i].description = calls[d][j].description

C1_Witness ==
    \E c, d \in Clients :
      /\ c # d /\ IsStudy(c) /\ IsStudy(d)
      /\ HasText(c) /\ HasText(d) /\ RequestText(c) # RequestText(d)
      /\ Len(calls[c]) = 3 /\ Len(calls[d]) = 3
      /\ outputs[c][1] = Marker /\ outputs[d][1] = <<>>
      /\ outputs[c][2] = Marker /\ outputs[d][2] = Marker

\* C2: a successful study-material response has exactly the fields topics,
\* notes and mcqs, each equal to the text the generation call of its stage
\* returned.
C2_ResponseIsRawOutputs ==
    \A c \in Clients :
      (IsStudy(c) /\ response[c].status = 200) =>
        /\ DOMAIN response[c].body = {"topics", "notes", "mcqs"}
        /\ Len(outputs[c]) = 3
        /\ response[c].body.topics = outputs[c][1]
        /\ response[c].body.notes = outputs[c][2]
        /\ response[c].body.mcqs = outputs[c][3]

C2_Witness ==
    \E c \in Clients :
      /\ IsStudy(c) /\ response[c].status = 200
      /\ outputs[c][1] = Marker
      /\ outputs[c][2] = <<>>
      /\ outputs[c][3] = RequestText(c) /\ RequestText(c) \notin {<<>>, Marker}

CanonicalStudyEvents ==
    << <<"call", "topic">>, <<"return", "topic">>,
       <<"call", "notes">>, <<"return", "notes">>,
       <<"call", "mcq">>, <<"return", "mcq">>, <<"respond", 200>> >>

\* C3: in a study-material request a stage is called only after the stage
\* before it has returned, the response is sent only after the MCQ call has
\* returned, and a successful request has made exactly the calls topic,
\* notes, MCQ, in that order.
C3_StrictlySequential ==
    \A c \in Clients : IsStudy(c) =>
      LET e == events[c]
          n == Len(e)
      IN /\ \/ IsPrefix(e, CanonicalStudyEvents)
            \/ /\ n >= 3
               /\ IsPrefix(SubSeq(e, 1, n - 2), CanonicalStudyEvents)
               /\ e[n - 2][1] = "call"
               /\ e[n - 1] = <<"raise", e[n - 2][2]>>
               /\ e[n] = <<"respond", 500>>
            \/ e = << <<"respond", 422>> >>
         /\ response[c].status = 200 =>
              /\ e = CanonicalStudyEvents
              /\ [i \in 1..Len(calls[c]) |-> calls[c][i].stage]
                   = <<"topic", "notes", "mcq">>

C3_Witness ==
    \E c \in Clients :
      IsStudy(c) /\ response[c].status = 200 /\ Len(calls[c]) = 3

\* C4: when the generation call of a stage of a study-material request
\* fails, the request fails: the call is not repeated, no later stage is
\* called, and the response carries none of topics, notes, mcqs.
C4_FailureFailsRequest ==
    \A c \in Clients : \A i \in 1..Len(events[c]) :
      (IsStudy(c) /\ events[c][i][1] = "raise") =>
        /\ pc[c] = "raised"
        /\ \A j \in (i + 1)..Len(events[c]) : events[c][j][1] # "call"
        /\ Cardinality(StageCalls(c, events[c][i][2])) = 1
        /\ calls[c][Len(calls[c])].stage = events[c][i][2]
        /\ Len(outputs[c]) = Len(calls[c]) - 1
        /\ response[c].status = 500
        /\ DOMAIN response[c].body \cap {"topics", "notes", "mcqs"} = {}

C4_Witness ==
    \E c \in Clients :
      /\ IsStudy(c) /\ pc[c] = "raised"
      /\ Len(outputs[c]) = 2 /\ Len(calls[c]) = 3
      /\ events[c][Len(events[c]) - 1] = <<"raise", "mcq">>

\* C5: when no credential is present once the .env file has been loaded,
\* the process fails to initialise: no request is received or answered and
\* no generation call is made.
C5_NoCredentialNoService ==
    (boot # "load_dotenv" /\ environ = None) =>
      /\ boot \in {"getenv", "check", "failed"}
      /\ \A c \in Clients :
           /\ pc[c] = "pending"
           /\ calls[c] = <<>>
           /\ events[c] = <<>>
           /\ response[c] = NoResponse

C5_Witness == boot = "failed" /\ environ = None

\* C6: a POST whose body is malformed or lacks "text" never reaches the
\* handler: no generation call is made for it.
C6_InvalidBodyNoCalls ==
    \A c \in Clients :
      (inbox[c].method = "POST" /\ ~HasText(c)) =>
        /\ pc[c] \in {"pending", "rejected"}
        /\ calls[c] = <<>>
        /\ \A i \in 1..Len(events[c]) : events[c][i][1] # "call"

C6_Witness ==
    \E c \in Clients :
      /\ IsStudy(c) /\ inbox[c].body.kind = "object" /\ ~HasText(c)
      /\ pc[c] = "rejected" /\ response[c].status = 422

ForeignTokens(c) ==
    UNION {Range(RequestText(d)) : d \in {x \in Clients : x # c /\ HasText(x)}}
      \ (IF HasText(c) THEN Range(RequestText(c)) ELSE {})

\* C7: whatever the interleaving, no text of another request appears in a
\* request's instructions or in its response.
C7_NoCrossRequestText ==
    \A c \in Clients :
      /\ \A i \in 1..Len(calls[c]) :
           /\ Range(calls[c][i].description) \cap ForeignTokens(c) = {}
           /\ Range(calls[c][i].expected_output) \cap ForeignTokens(c) = {}
      /\ \A f \in DOMAIN response[c].body :
           Range(response[c].body[f]) \cap ForeignTokens(c) = {}

C7_Witness ==
    \E c, d \in Clients :
      /\ c # d /\ IsStudy(c) /\ IsStudy(d) /\ HasText(c) /\ HasText(d)
      /\ pc[c] = "waiting" /\ pc[d] = "waiting"
      /\ Len(calls[c]) = 2 /\ Len(calls[d]) = 3
      /\ outputs[c][1] = RequestText(c)
      /\ outputs[d][2] = RequestText(d)

\* C8 as stated: for a non-empty text, a finished POST /summarize has made
\* exactly one generation call and has answered with the single field
\* summary, a non-empty string.
C8_Original ==
    \A c \in Clients :
      (IsSummarize(c) /\ HasText(c) /\ RequestText(c) # <<>>
          /\ pc[c] \in {"done", "raised"}) =>
        /\ Len(calls[c]) = 1
        /\ response[c].status = 200
        /\ DOMAIN response[c].body = {"summary"}
        /\ response[c].body.summary # <<>>

\* C8 amended: for a non-empty text, a finished POST /summarize has made
\* exactly one generation call; when that call returned, the response has
\* the single field summary and its value is the returned text, non-empty
\* exactly when the returned text is; when it failed there is no summary.
C8_SummaryIsRawOutput ==
    \A c \in Clients :
      (IsSummarize(c) /\ HasText(c) /\ RequestText(c) # <<>>
          /\ pc[c] \in {"done", "raised"}) =>
        /\ Len(calls[c]) = 1
        /\ pc[c] = "done" =>
             /\ response[c].status = 200
             /\ DOMAIN response[c].body = {"summary"}
             /\ Len(outputs[c]) = 1
             /\ response[c].body.summary = outputs[c][1]
        /\ pc[c] = "raised" =>
             /\ response[c].status = 500
             /\ "summary" \notin DOMAIN response[c].body

C8_Witness ==
    \E c \in Clients :
      /\ IsSummarize(c) /\ HasText(c) /\ RequestText(c) # <<>>
      /\ pc[c] = "done" /\ outputs[c] = <<Marker>>

\* C9: every integer num_mcqs is accepted, and the MCQ instruction carries
\* exactly its decimal literal; an omitted num_mcqs gives the literal 5.
C9_CountPassedThrough ==
    \A c \in Clients :
      (IsStudy(c) /\ HasText(c)) =>
        /\ pc[c] # "rejected"
        /\ response[c].status # 422
        /\ \A i \in StageCalls(c, "mcq") :
             /\ Contains(calls[c][i].description, Literal(RequestedCount(c)))
             /\ SelectSeq(calls[c][i].description, IsNumeric)
                  = Literal(RequestedCount(c))

C9_Witness ==
    \E c \in Clients :
      /\ IsStudy(c) /\ HasText(c) /\ ~DefaultCount(c)
      /\ RequestedCount(c) = -10
      /\ StageCalls(c, "mcq") # {}

\* C10 as stated: with the default count, no field of the study-material
\* response is the request text unchanged.
C10_Original ==
    \A c \in Clients :
      (IsStudy(c) /\ DefaultCount(c) /\ response[c].status = 200) =>
        \A f \in {"topics", "notes", "mcqs"} :
          response[c].body[f] # RequestText(c)

StageOfField(f) ==
    CASE f = "topics" -> 1 [] f = "notes" -> 2 [] f = "mcqs" -> 3

\* C10 amended: with the default count, a field of the study-material
\* response is the request text unchanged only when the generation call of
\* the field's stage returned exactly the request text.
C10_InputOnlyIfGenerated ==
    \A c \in Clients :
      (IsStudy(c) /\ DefaultCount(c) /\ response[c].status = 200) =>
        \A f \in {"topics", "notes", "mcqs"} :
          response[c].body[f] = RequestText(c)
            => outputs[c][StageOfField(f)] = RequestText(c)

C10_Witness ==
    \E c \in Clients :
      /\ IsStudy(c) /\ DefaultCount(c) /\ response[c].status = 200
      /\ RequestText(c) # <<>>
      /\ outputs[c][1] = Marker
      /\ outputs[c][2] = RequestText(c)
      /\ outputs[c][3] = <<>>

====
